---- MODULE Spec2Model ----
(***************************************************************************)
(* A model of the chat-template repository: the /stream query pipeline of  *)
(* main.py, the per-session history kept by query_gemini.py, and the       *)
(* index build and search of data_indexer.py.                              *)
(*                                                                         *)
(* Text is modelled as a sequence of tokens (one-character strings or      *)
(* fixed pieces of text), so that formatting, joining and stripping are    *)
(* computed rather than assumed.                                           *)
(***************************************************************************)
EXTENDS Integers, Sequences, FiniteSets, TLC

(***************************************************************************)
(* Bounds of the model and constants of the program.                       *)
(***************************************************************************)
\* Queries that may run concurrently in Spec.
NQueries == 2
\* Queries run one after another in SeqSpec.
NSeqQueries == 6
\* Fragments the generation backend emits in one run of Spec, over all streams.
MaxChunks == 1
\* Fragments the generation backend emits in one run of SeqSpec, over all streams.
SeqMaxChunks == 2
\* The largest top_k a search is asked for in SearchSpec.
MaxTopK == 3
\* deque(maxlen=10)
HistoryMaxLen == 10

Sessions == {"s1", "s2"}
SessionOrder == [s \in Sessions |-> IF s = "s1" THEN 1 ELSE 2]
\* The top_k values (topNDocuments) a /stream request carries.
StreamTopKs == {1}
SeqSessions == {"s1"}
\* The texts a backend chunk may carry (chunk.text).
Chunks == {<<"a">>, <<" ", "b">>}
Whitespace == {" ", "\n"}

Min(a, b) == IF a < b THEN a ELSE b

(***************************************************************************)
(* Text helpers.                                                           *)
(***************************************************************************)
RECURSIVE Join(_, _)
\* sep.join(parts) for a sequence of texts
Join(sep, parts) ==
    IF Len(parts) = 0 THEN <<>>
    ELSE IF Len(parts) = 1 THEN parts[1]
    ELSE parts[1] \o sep \o Join(sep, Tail(parts))

RECURSIVE LStrip(_)
LStrip(t) == IF Len(t) > 0 /\ t[1] \in Whitespace THEN LStrip(Tail(t)) ELSE t

RECURSIVE RStrip(_)
RStrip(t) ==
    IF Len(t) > 0 /\ t[Len(t)] \in Whitespace
    THEN RStrip(SubSeq(t, 1, Len(t) - 1))
    ELSE t

\* str.strip()
Strip(t) == RStrip(LStrip(t))

\* json.dumps(doc) of one record
JsonDumps(doc) == <<"{", doc, "}">>

\* seq[idx] of Python, idx counted from 0, a negative idx from the end
PyIndex(seq, idx) == IF idx >= 0 THEN seq[idx + 1] ELSE seq[Len(seq) + idx + 1]

\* Faulty variant of DequeAppend: a deque without maxlen.
DequeAppend_unbounded(d, x, n) == Append(d, x)

\* deque(maxlen=n).append(x): the oldest entry is dropped when full
DequeAppend(d, x, n) ==
    IF Len(d) >= n THEN Append(SubSeq(d, Len(d) - n + 2, Len(d)), x)
    ELSE Append(d, x)

(***************************************************************************)
(* data_indexer.py: the DataIndexer, its index and its search.             *)
(*                                                                         *)
(* A record of the dataset is one token ("r1"); a DataIndexer is the pair  *)
(* of its fields data and index, each with a flag telling None apart.      *)
(* A vector is the text it was computed from, tagged: the encoder is a     *)
(* function of the text alone.                                             *)
(***************************************************************************)
Records == {"r1", "r2", "r3"}

\* self.model.encode(texts)[i]
Embed(text) == <<"vec">> \o text

\* the vectors index_faiss computes for a dataset, in its order
EmbedAll(data) == [i \in 1..Len(data) |-> Embed(JsonDumps(data[i]))]

\* DataIndexer.__init__: self.data = None, self.index = None
NewIndexer == [data_loaded |-> FALSE, data |-> <<>>, index_set |-> FALSE, index |-> <<>>]

\* The orders in which a flat index of n vectors can rank its positions 0..n-1.
Ranks(n) == {r \in [1..n -> 0..(n - 1)] : \A i, j \in 1..n : i # j => r[i] # r[j]}

\* IndexFlatL2.search(query_embedding, top_k)[1][0]: the top_k nearest positions,
\* nearest first, the slots beyond the vector count filled with -1
IndexSearch(index, rank, top_k) ==
    [i \in 1..top_k |-> IF i <= Len(index) THEN rank[i] ELSE -1]

\* the comprehension of search_faiss: [json_data[idx] for idx in indices[0] if idx < len(json_data)]
MapToRecords(json_data, indices) ==
    LET kept == SelectSeq(indices, LAMBDA idx : idx < Len(json_data))
    IN  [i \in 1..Len(kept) |-> PyIndex(json_data, kept[i])]

\* DataIndexer.search_faiss(query, top_k); rank is the order the index finds for
\* the query and encode_ok tells whether the embedding model answers.
\* Faulty variant of search_faiss: a position without a record is a data-integrity error.
search_faiss_checked(ind, rank, top_k, encode_ok) ==
    IF ~ind.index_set
    THEN [raised |-> TRUE, error |-> "index not built", results |-> <<>>]
    ELSE IF ~encode_ok
    THEN [raised |-> TRUE, error |-> "embedding failed", results |-> <<>>]
    ELSE IF ~ind.data_loaded
    THEN [raised |-> TRUE, error |-> "no data loaded", results |-> <<>>]
    ELSE IF Len(ind.data) = 0
    THEN [raised |-> TRUE, error |-> "no data found", results |-> <<>>]
    ELSE IF \E i \in 1..top_k : IndexSearch(ind.index, rank, top_k)[i] >= Len(ind.data)
    THEN [raised |-> TRUE, error |-> "data integrity", results |-> <<>>]
    ELSE [raised |-> FALSE, error |-> "",
          results |-> MapToRecords(ind.data, IndexSearch(ind.index, rank, top_k))]

\* Faulty variant of search_faiss: the query is embedded before the index is looked at.
search_faiss_encodes_first(ind, rank, top_k, encode_ok) ==
    IF ~encode_ok
    THEN [raised |-> TRUE, error |-> "embedding failed", results |-> <<>>]
    ELSE IF ~ind.index_set
    THEN [raised |-> TRUE, error |-> "index not built", results |-> <<>>]
    ELSE IF ~ind.data_loaded
    THEN [raised |-> TRUE, error |-> "no data loaded", results |-> <<>>]
    ELSE IF Len(ind.data) = 0
    THEN [raised |-> TRUE, error |-> "no data found", results |-> <<>>]
    ELSE [raised |-> FALSE, error |-> "",
          results |-> MapToRecords(ind.data, IndexSearch(ind.index, rank, top_k))]

search_faiss(ind, rank, top_k, encode_ok) ==
    IF ~ind.index_set
    THEN [raised |-> TRUE, error |-> "index not built", results |-> <<>>]
    ELSE IF ~encode_ok
    THEN [raised |-> TRUE, error |-> "embedding failed", results |-> <<>>]
    ELSE IF ~ind.data_loaded
    THEN [raised |-> TRUE, error |-> "no data loaded", results |-> <<>>]
    ELSE IF Len(ind.data) = 0
    THEN [raised |-> TRUE, error |-> "no data found", results |-> <<>>]
    ELSE [raised |-> FALSE, error |-> "",
          results |-> MapToRecords(ind.data, IndexSearch(ind.index, rank, top_k))]

(***************************************************************************)
(* main.py: the startup hook.  The disk holds data.json and                *)
(* faiss_index.bin, each present or not; data.json may be unreadable as    *)
(* JSON (data_corrupt).                                                    *)
(***************************************************************************)
NoDisk ==
    [data_exists |-> FALSE, data_corrupt |-> FALSE, data |-> <<>>,
     index_exists |-> FALSE, index |-> <<>>]

\* the files a completed process_and_index of dataset d leaves
SavedGeneration(d) ==
    [data_exists |-> TRUE, data_corrupt |-> FALSE, data |-> d,
     index_exists |-> TRUE, index |-> EmbedAll(d)]

\* DataIndexer(data_file=...) of the startup hook: data is loaded when the file exists
LoadIndexer(disk) ==
    [data_loaded |-> disk.data_exists, data |-> disk.data,
     index_set |-> FALSE, index |-> <<>>]

\* app.faiss_index = None
NoAppIndex == [avail |-> FALSE, indexer |-> NewIndexer]

\* initialize_faiss_index(): the value app.faiss_index is left with
initialize_faiss_index(disk) ==
    IF ~disk.index_exists THEN NoAppIndex
    ELSE IF disk.data_exists /\ disk.data_corrupt
    THEN NoAppIndex     \* DataIndexer.__init__ re-raises, the hook's except sets None
    ELSE [avail |-> TRUE,
          indexer |-> [LoadIndexer(disk) EXCEPT !.index_set = TRUE, !.index = disk.index]]

(***************************************************************************)
(* The state.                                                              *)
(*   app_faiss_index    app.faiss_index, as the startup hook left it       *)
(*   session_histories  QueryGemini.session_histories: session id -> deque *)
(*   pc                 where each /stream request is                      *)
(*   req                the parameters of each request                     *)
(*   retrieval          how the retrieval step of each request ended       *)
(*   retrieved_docs, context, prompt, answer   the locals of the request   *)
(*   pulled             fragments taken from the backend's stream so far   *)
(*   events             the SSE events delivered to the caller so far      *)
(*   cited              citations yielded so far                           *)
(*   arrivals           requests received so far; a request's number is    *)
(*                      its place in the order of arrival                  *)
(*   emitted            fragments the backend has emitted, over all streams*)
(*   commits            history variable: every append made to a session   *)
(*                      history, in order, with the request that made it   *)
(* pc and the request's locals are indexed by the slot (the task) serving  *)
(* the request.                                                            *)
(***************************************************************************)
VARIABLES app_faiss_index, session_histories, pc, req, retrieval,
          retrieved_docs, context, prompt, answer, pulled, events, cited,
          arrivals, emitted, commits

(***************************************************************************)
(* The state of a search on its own (SearchSpec).                          *)
(*   s_disk     the files the indexer was loaded from (NoDisk if built)    *)
(*   s_app      the indexer searched, as app.faiss_index holds it          *)
(*   s_pc       "ready" before the search, "searched" after it             *)
(*   s_top_k, s_indices   the top_k asked for and the positions the index  *)
(*              returned                                                   *)
(*   s_out      what search_faiss returned or raised                       *)
(***************************************************************************)
VARIABLES s_disk, s_app, s_pc, s_top_k, s_indices, s_out

svars == <<s_disk, s_app, s_pc, s_top_k, s_indices, s_out>>

(***************************************************************************)
(* The state of an upload (BuildSpec): one DataIndexer and the calls made  *)
(* on it.                                                                  *)
(*   b_disk     data.json and faiss_index.bin                              *)
(*   b_file     the uploaded file: whether it exists, can be read, and its *)
(*              rows                                                       *)
(*   b_ind      the DataIndexer: its data and its index                    *)
(*   b_pc       where the call in progress is                              *)
(*   b_direct   index_faiss was called on its own, not by process_and_index*)
(*   b_cb       a progress callback was passed                             *)
(*   b_emb      the embeddings local of index_faiss                        *)
(*   b_i        rounds of the insertion loop completed                     *)
(*   b_calls    the arguments of the progress callback's calls, in order   *)
(*   b_err      what the last call raised                                  *)
(*   b_runs     calls made on the DataIndexer so far                       *)
(*   b_prev, b_disk0   history variables: the DataIndexer and the disk as  *)
(*              they were when the call in progress began                  *)
(***************************************************************************)
VARIABLES b_disk, b_file, b_ind, b_pc, b_direct, b_cb, b_emb, b_i, b_calls,
          b_err, b_runs, b_prev, b_disk0

bvars == <<b_disk, b_file, b_ind, b_pc, b_direct, b_cb, b_emb, b_i, b_calls,
           b_err, b_runs, b_prev, b_disk0>>

(***************************************************************************)
(* The state of a GraniteChat (GraniteSpec): one instance and the calls of *)
(* chat made on it, one after another.                                     *)
(*   g_messages  self.messages                                             *)
(*   g_pc        where the generator of the call in progress is            *)
(*   g_input     the user_input of the call in progress                    *)
(*   g_output    the output local of the call in progress                  *)
(*   g_lines     content lines read from the response of this call         *)
(*   g_calls     calls of chat made so far                                 *)
(***************************************************************************)
VARIABLES g_messages, g_pc, g_input, g_output, g_lines, g_calls

gvars == <<g_messages, g_pc, g_input, g_output, g_lines, g_calls>>

qvars == <<app_faiss_index, session_histories, pc, req, retrieval,
           retrieved_docs, context, prompt, answer, pulled, events, cited,
           arrivals, emitted, commits>>

Queries == DOMAIN pc

\* a request that has ended: the stream is exhausted, has raised, was closed by
\* the caller, or the handler answered 500
Terminal == {"done", "failed", "closed", "aborted"}

\* the question the n-th request asks; distinct requests ask distinct
\* questions, so that an entry of a history tells which request appended it
QueryText(n) == <<"q" \o ToString(n), "?">>

\* f"Q: {query}"
QEntry(query) == <<"Q", ":", " ">> \o query

\* f"A: {answer.strip()}"
AEntry(ans) == <<"A", ":", " ">> \o Strip(ans)

Instructions == "Answer appropriately with citations to the context. ..."

\* the prompt of query_gemini, from the history as it is when the generator starts
BuildPrompt(history, ctx, query) ==
    LET history_text == IF Len(history) > 0 THEN Join(<<"\n">>, history)
                        ELSE <<"No history available.">>
        context_text == IF Len(ctx) > 0 THEN ctx ELSE <<"No context available.">>
    IN  <<"This is the history:\n">> \o history_text
        \o <<"\n\nThis is the context:\n">> \o context_text
        \o <<"\n\nThis is the query:\n">> \o query
        \o <<"\n\n", Instructions>>

\* Faulty variant of BuildContext: each record carries its 1-based rank as a tag.
BuildContext_tagged(docs) ==
    Join(<<" ">>, [i \in 1..Len(docs) |-> <<"[" \o ToString(i) \o "]">> \o JsonDumps(docs[i])])

\* " ".join([json.dumps(doc) for doc in retrieved_docs])
BuildContext(docs) == Join(<<" ">>, [i \in 1..Len(docs) |-> JsonDumps(docs[i])])

\* Faulty variant of Construct: every QueryGemini starts its session afresh.
Construct_resets(s) ==
    [t \in DOMAIN session_histories \cup {s} |->
        IF t = s THEN <<>> ELSE session_histories[t]]

\* QueryGemini.__init__: the session's deque is created on first use only
Construct(s) ==
    IF s \in DOMAIN session_histories THEN session_histories
    ELSE [t \in DOMAIN session_histories \cup {s} |->
            IF t = s THEN <<>> ELSE session_histories[t]]

\* Faulty variant of HistoryKey: one deque shared by every session.
HistoryKey_shared(q) == "s1"

\* QueryGemini.session_histories[self.session_id]: the deque query_gemini uses
HistoryKey(q) == req[q].sid

ResponseEvent(content) == [type |-> "response", data |-> content]
CitationEvent(doc) == [type |-> "citation", data |-> <<doc>>]

\* the prompt local of request q once its generator has run its first lines
Prompted(q) ==
    IF pc[q] = "created"
    THEN BuildPrompt(session_histories[HistoryKey(q)], context[q], req[q].query)
    ELSE prompt[q]

\* history.append(entry) on the session's deque, by request q
HistoryAppend(q, entry) ==
    /\ session_histories' =
         [session_histories EXCEPT ![HistoryKey(q)] = DequeAppend(@, entry, HistoryMaxLen)]
    /\ commits' = Append(commits, [n |-> req[q].n, sid |-> req[q].sid, entry |-> entry])

(***************************************************************************)
(* main.py, stream(): the handler up to the return of the                  *)
(* StreamingResponse.  Nothing of the generator has run yet.               *)
(***************************************************************************)
\* Faulty variant of StreamAbort: a search error degrades to an empty context.
StreamAbort_degrades(q, s, k) ==
    /\ pc' = [pc EXCEPT ![q] = "created"]
    /\ req' = [req EXCEPT ![q] = [sid |-> s, query |-> QueryText(arrivals + 1), n |-> arrivals + 1]]
    /\ retrieval' = [retrieval EXCEPT ![q] = "error"]
    /\ retrieved_docs' = [retrieved_docs EXCEPT ![q] = <<>>]
    /\ context' = [context EXCEPT ![q] = <<>>]
    /\ session_histories' = Construct(s)

\* the except branch of stream(): HTTP 500, no response stream
StreamAbort(q, s, k) ==
    /\ pc' = [pc EXCEPT ![q] = "aborted"]
    /\ req' = [req EXCEPT ![q] = [sid |-> s, query |-> QueryText(arrivals + 1), n |-> arrivals + 1]]
    /\ retrieval' = [retrieval EXCEPT ![q] = "error"]
    /\ retrieved_docs' = [retrieved_docs EXCEPT ![q] = <<>>]
    /\ context' = [context EXCEPT ![q] = <<>>]
    /\ UNCHANGED session_histories

\* lines 82-108: the context is built, the QueryGemini constructed and the
\* generator handed to the StreamingResponse
StreamProceed(q, s, k, how, docs) ==
    /\ pc' = [pc EXCEPT ![q] = "created"]
    /\ req' = [req EXCEPT ![q] = [sid |-> s, query |-> QueryText(arrivals + 1), n |-> arrivals + 1]]
    /\ retrieval' = [retrieval EXCEPT ![q] = how]
    /\ retrieved_docs' = [retrieved_docs EXCEPT ![q] = docs]
    /\ context' = [context EXCEPT ![q] = BuildContext(docs)]
    /\ session_histories' = Construct(s)

\* Requests are numbered in the order they arrive, take the first free slot, and
\* name a session already known or the first name not yet used: slot numbers
\* and session names are labels, so no behaviour is lost.
FreshSession(s) ==
    /\ s \notin DOMAIN session_histories
    /\ \A t \in Sessions \ DOMAIN session_histories : t = s \/ SessionOrder[s] < SessionOrder[t]

\* slot q can take a new request: it never served one or, where slots are
\* reused, the request it served has ended (its locals are then dropped)
Free(q, reuse) == pc[q] = "idle" \/ (reuse /\ pc[q] \in Terminal)

stream(q, s, k, reuse, maxreq) ==
    /\ Free(q, reuse)
    /\ \A p \in Queries : p < q => ~Free(p, reuse)
    /\ arrivals < maxreq
    /\ s \in DOMAIN session_histories \/ FreshSession(s)
    /\ arrivals' = arrivals + 1
    /\ prompt' = [prompt EXCEPT ![q] = <<>>]
    /\ answer' = [answer EXCEPT ![q] = <<>>]
    /\ pulled' = [pulled EXCEPT ![q] = 0]
    /\ events' = [events EXCEPT ![q] = <<>>]
    /\ cited' = [cited EXCEPT ![q] = 0]
    /\ IF app_faiss_index.avail
       THEN \E rank \in Ranks(Len(app_faiss_index.indexer.index)), encode_ok \in BOOLEAN :
              LET r == search_faiss(app_faiss_index.indexer, rank, k, encode_ok)
              IN  IF r.raised THEN StreamAbort(q, s, k)
                  ELSE StreamProceed(q, s, k, "ok", r.results)
       ELSE StreamProceed(q, s, k, "skipped", <<>>)
    /\ UNCHANGED <<app_faiss_index, emitted, commits>>

(***************************************************************************)
(* query_gemini.py, query_gemini() driven by event_generator(): one action *)
(* per next() of the caller, and one per append of the commit.             *)
(***************************************************************************)
Running(q) == pc[q] \in {"created", "streaming"}


\* Faulty variant of gemini_chunk: every fragment is written to the history as it comes.
gemini_chunk_eager(q, c, maxc) ==
    /\ Running(q)
    /\ emitted < maxc
    /\ emitted' = emitted + 1
    /\ prompt' = [prompt EXCEPT ![q] = Prompted(q)]
    /\ answer' = [answer EXCEPT ![q] = @ \o c]
    /\ pulled' = [pulled EXCEPT ![q] = @ + 1]
    /\ events' = [events EXCEPT ![q] = Append(@, ResponseEvent(c))]
    /\ pc' = [pc EXCEPT ![q] = "streaming"]
    /\ HistoryAppend(q, AEntry(c))
    /\ UNCHANGED <<app_faiss_index, req, retrieval, retrieved_docs, context, cited, arrivals>>

\* the backend hands out a fragment: answer += chunk.text; yield chunk.text,
\* which event_generator wraps and yields
gemini_chunk(q, c, maxc) ==
    /\ Running(q)
    /\ emitted < maxc
    /\ emitted' = emitted + 1
    /\ prompt' = [prompt EXCEPT ![q] = Prompted(q)]
    /\ answer' = [answer EXCEPT ![q] = @ \o c]
    /\ pulled' = [pulled EXCEPT ![q] = @ + 1]
    /\ events' = [events EXCEPT ![q] = Append(@, ResponseEvent(c))]
    /\ pc' = [pc EXCEPT ![q] = "streaming"]
    /\ UNCHANGED <<app_faiss_index, session_histories, req, retrieval,
                   retrieved_docs, context, cited, arrivals, commits>>

\* Faulty variant of gemini_error: the turn is committed in a finally clause.
gemini_error_commits(q) ==
    /\ Running(q)
    /\ prompt' = [prompt EXCEPT ![q] = Prompted(q)]
    /\ pc' = [pc EXCEPT ![q] = "failed"]
    /\ session_histories' =
         [session_histories EXCEPT ![HistoryKey(q)] =
            DequeAppend(DequeAppend(@, QEntry(req[q].query), HistoryMaxLen),
                        AEntry(answer[q]), HistoryMaxLen)]
    /\ commits' = commits \o
         << [n |-> req[q].n, sid |-> req[q].sid, entry |-> QEntry(req[q].query)],
            [n |-> req[q].n, sid |-> req[q].sid, entry |-> AEntry(answer[q])] >>
    /\ UNCHANGED <<app_faiss_index, req, retrieval, retrieved_docs, context,
                   answer, pulled, events, cited, arrivals, emitted>>

\* generate_content or the stream raises: except Exception -> RuntimeError
gemini_error(q) ==
    /\ Running(q)
    /\ prompt' = [prompt EXCEPT ![q] = Prompted(q)]
    /\ pc' = [pc EXCEPT ![q] = "failed"]
    /\ UNCHANGED <<app_faiss_index, session_histories, req, retrieval,
                   retrieved_docs, context, answer, pulled, events, cited,
                   arrivals, emitted, commits>>

\* the stream ends: the for loop is left and line 54 appends the question
gemini_end(q) ==
    /\ Running(q)
    /\ prompt' = [prompt EXCEPT ![q] = Prompted(q)]
    /\ HistoryAppend(q, QEntry(req[q].query))
    /\ pc' = [pc EXCEPT ![q] = "appendedQ"]
    /\ UNCHANGED <<app_faiss_index, req, retrieval, retrieved_docs, context,
                   answer, pulled, events, cited, arrivals, emitted>>

\* Faulty variant of append_answer: an answer that is empty once stripped is not stored.
append_answer_skips_empty(q) ==
    /\ pc[q] = "appendedQ"
    /\ IF Len(Strip(answer[q])) > 0
       THEN HistoryAppend(q, AEntry(answer[q]))
       ELSE UNCHANGED <<session_histories, commits>>
    /\ IF Len(context[q]) > 0
       THEN /\ events' = [events EXCEPT ![q] = Append(@, CitationEvent(retrieved_docs[q][1]))]
            /\ cited' = [cited EXCEPT ![q] = 1]
            /\ pc' = [pc EXCEPT ![q] = "citing"]
       ELSE /\ pc' = [pc EXCEPT ![q] = "done"]
            /\ UNCHANGED <<events, cited>>
    /\ UNCHANGED <<app_faiss_index, req, retrieval, retrieved_docs, context,
                   prompt, answer, pulled, arrivals, emitted>>

\* line 55 appends the answer; query_gemini returns and event_generator goes on
\* to its citations, yielding the first one if there is a context
append_answer(q) ==
    /\ pc[q] = "appendedQ"
    /\ HistoryAppend(q, AEntry(answer[q]))
    /\ IF Len(context[q]) > 0
       THEN /\ events' = [events EXCEPT ![q] = Append(@, CitationEvent(retrieved_docs[q][1]))]
            /\ cited' = [cited EXCEPT ![q] = 1]
            /\ pc' = [pc EXCEPT ![q] = "citing"]
       ELSE /\ pc' = [pc EXCEPT ![q] = "done"]
            /\ UNCHANGED <<events, cited>>
    /\ UNCHANGED <<app_faiss_index, req, retrieval, retrieved_docs, context,
                   prompt, answer, pulled, arrivals, emitted>>

\* Faulty variant of citation_next: the citations are yielded last record first.
citation_next_lifo(q) ==
    /\ pc[q] = "citing"
    /\ IF cited[q] < Len(retrieved_docs[q])
       THEN /\ events' = [events EXCEPT ![q] =
                            Append(@, CitationEvent(retrieved_docs[q][Len(retrieved_docs[q]) - cited[q]]))]
            /\ cited' = [cited EXCEPT ![q] = @ + 1]
            /\ UNCHANGED pc
       ELSE /\ pc' = [pc EXCEPT ![q] = "done"]
            /\ UNCHANGED <<events, cited>>
    /\ UNCHANGED <<app_faiss_index, session_histories, req, retrieval,
                   retrieved_docs, context, prompt, answer, pulled,
                   arrivals, emitted, commits>>

\* next() while the citations are being yielded
citation_next(q) ==
    /\ pc[q] = "citing"
    /\ IF cited[q] < Len(retrieved_docs[q])
       THEN /\ events' = [events EXCEPT ![q] =
                            Append(@, CitationEvent(retrieved_docs[q][cited[q] + 1]))]
            /\ cited' = [cited EXCEPT ![q] = @ + 1]
            /\ UNCHANGED pc
       ELSE /\ pc' = [pc EXCEPT ![q] = "done"]
            /\ UNCHANGED <<events, cited>>
    /\ UNCHANGED <<app_faiss_index, session_histories, req, retrieval,
                   retrieved_docs, context, prompt, answer, pulled,
                   arrivals, emitted, commits>>

\* Faulty variant of close: closing the generator commits what was streamed so far.
close_commits(q) ==
    /\ pc[q] \in {"created", "streaming", "citing"}
    /\ pc' = [pc EXCEPT ![q] = "closed"]
    /\ IF pc[q] = "streaming"
       THEN /\ session_histories' =
                 [session_histories EXCEPT ![HistoryKey(q)] =
                    DequeAppend(DequeAppend(@, QEntry(req[q].query), HistoryMaxLen),
                                AEntry(answer[q]), HistoryMaxLen)]
            /\ commits' = commits \o
                 << [n |-> req[q].n, sid |-> req[q].sid, entry |-> QEntry(req[q].query)],
                    [n |-> req[q].n, sid |-> req[q].sid, entry |-> AEntry(answer[q])] >>
       ELSE UNCHANGED <<session_histories, commits>>
    /\ UNCHANGED <<app_faiss_index, req, retrieval, retrieved_docs, context,
                   prompt, answer, pulled, events, cited, arrivals, emitted>>

\* the caller stops consuming: the generator, suspended at a yield or not yet
\* started, is closed.  GeneratorExit is no Exception: nothing else runs.
close(q) ==
    /\ pc[q] \in {"created", "streaming", "citing"}
    /\ pc' = [pc EXCEPT ![q] = "closed"]
    /\ UNCHANGED <<app_faiss_index, session_histories, req, retrieval,
                   retrieved_docs, context, prompt, answer, pulled, events,
                   cited, arrivals, emitted, commits>>

(***************************************************************************)
(* Spec: NQueries requests served concurrently, on two sessions.           *)
(***************************************************************************)
\* what the disk may hold when the server starts
StartDisks ==
    { NoDisk,
      SavedGeneration(<<"r1">>),
      [SavedGeneration(<<"r1">>) EXCEPT !.data_exists = FALSE, !.data = <<>>] }

QInit(n, disks) ==
    /\ app_faiss_index \in {initialize_faiss_index(d) : d \in disks}
    /\ session_histories = << >>
    /\ pc = [q \in 1..n |-> "idle"]
    /\ req = [q \in 1..n |-> [sid |-> "s1", query |-> <<>>, n |-> 0]]
    /\ retrieval = [q \in 1..n |-> "none"]
    /\ retrieved_docs = [q \in 1..n |-> <<>>]
    /\ context = [q \in 1..n |-> <<>>]
    /\ prompt = [q \in 1..n |-> <<>>]
    /\ answer = [q \in 1..n |-> <<>>]
    /\ pulled = [q \in 1..n |-> 0]
    /\ events = [q \in 1..n |-> <<>>]
    /\ cited = [q \in 1..n |-> 0]
    /\ arrivals = 0
    /\ emitted = 0
    /\ commits = <<>>

BIdle ==
    /\ b_disk = NoDisk
    /\ b_file = [exists |-> FALSE, readable |-> FALSE, rows |-> <<>>]
    /\ b_ind = NewIndexer
    /\ b_pc = "off"
    /\ b_direct = FALSE
    /\ b_cb = FALSE
    /\ b_emb = <<>>
    /\ b_i = 0
    /\ b_calls = <<>>
    /\ b_err = ""
    /\ b_runs = 0
    /\ b_prev = NewIndexer
    /\ b_disk0 = NoDisk

GIdle ==
    /\ g_messages = <<>>
    /\ g_pc = "off"
    /\ g_input = <<>>
    /\ g_output = <<>>
    /\ g_lines = 0
    /\ g_calls = 0

SIdle ==
    /\ s_disk = NoDisk
    /\ s_app = NoAppIndex
    /\ s_pc = "off"
    /\ s_top_k = 0
    /\ s_indices = <<>>
    /\ s_out = [raised |-> FALSE, error |-> "", results |-> <<>>]

Init == QInit(NQueries, StartDisks) /\ SIdle /\ BIdle /\ GIdle

Stream ==
    /\ \E q \in Queries, s \in Sessions, k \in StreamTopKs : stream(q, s, k, FALSE, NQueries)
    /\ UNCHANGED <<svars, bvars, gvars>>
GeminiChunk == (\E q \in Queries, c \in Chunks : gemini_chunk(q, c, MaxChunks)) /\ UNCHANGED <<svars, bvars, gvars>>
GeminiError == (\E q \in Queries : gemini_error(q)) /\ UNCHANGED <<svars, bvars, gvars>>
GeminiEnd == (\E q \in Queries : gemini_end(q)) /\ UNCHANGED <<svars, bvars, gvars>>
AppendAnswer == (\E q \in Queries : append_answer(q)) /\ UNCHANGED <<svars, bvars, gvars>>
CitationNext == (\E q \in Queries : citation_next(q)) /\ UNCHANGED <<svars, bvars, gvars>>
Close == (\E q \in Queries : close(q)) /\ UNCHANGED <<svars, bvars, gvars>>

Next ==
    \/ Stream
    \/ GeminiChunk
    \/ GeminiError
    \/ GeminiEnd
    \/ AppendAnswer
    \/ CitationNext
    \/ Close

vars == <<qvars, svars, bvars, gvars>>

Spec == Init /\ [][Next]_vars

(***************************************************************************)
(* SeqSpec: NSeqQueries requests on one session, run one after another in  *)
(* one slot: a request arrives only when the one before it has ended.      *)
(***************************************************************************)
SeqInit == QInit(1, StartDisks) /\ SIdle /\ BIdle /\ GIdle

SeqStream ==
    /\ \E q \in Queries, s \in SeqSessions, k \in StreamTopKs :
          stream(q, s, k, TRUE, NSeqQueries)
    /\ UNCHANGED <<svars, bvars, gvars>>

SeqGeminiChunk ==
    (\E q \in Queries, c \in Chunks : gemini_chunk(q, c, SeqMaxChunks)) /\ UNCHANGED <<svars, bvars, gvars>>

SeqNext ==
    \/ SeqStream
    \/ SeqGeminiChunk
    \/ GeminiError
    \/ GeminiEnd
    \/ AppendAnswer
    \/ CitationNext
    \/ Close

SeqSpec == SeqInit /\ [][SeqNext]_vars

(***************************************************************************)
(* CiteSpec: NCiteQueries requests on one session, one after another, with *)
(* an index of two records and top_k up to MaxTopK, so that a request      *)
(* retrieves several records and a later request has a history.            *)
(***************************************************************************)
\* Queries run one after another in CiteSpec.
NCiteQueries == 2

CiteDisks == {NoDisk, SavedGeneration(<<"r1", "r2">>)}

CiteInit == QInit(1, CiteDisks) /\ SIdle /\ BIdle /\ GIdle

CiteStream ==
    /\ \E q \in Queries, s \in SeqSessions, k \in 1..MaxTopK :
          stream(q, s, k, TRUE, NCiteQueries)
    /\ UNCHANGED <<svars, bvars, gvars>>

CiteNext ==
    \/ CiteStream
    \/ GeminiChunk
    \/ GeminiError
    \/ GeminiEnd
    \/ AppendAnswer
    \/ CitationNext
    \/ Close

CiteSpec == CiteInit /\ [][CiteNext]_vars

(***************************************************************************)
(* SearchSpec: one search_faiss on an indexer that index_faiss built, that *)
(* the startup hook loaded from the disk, or that has no index at all.     *)
(***************************************************************************)
\* Rows of a dataset, at most.
MaxRows == 3

\* the datasets: sequences of distinct records
Datasets ==
    UNION { {d \in [1..n -> Records] : \A i, j \in 1..n : i # j => d[i] # d[j]} : n \in 0..MaxRows }

\* a DataIndexer on which index_faiss has completed for dataset d
BuiltIndexer(d) ==
    [data_loaded |-> TRUE, data |-> d, index_set |-> TRUE, index |-> EmbedAll(d)]

\* the disks of SearchSpec: the index file of one generation with the data file
\* of any generation, corrupt, or missing
SearchDisks ==
    { [data_exists |-> de, data_corrupt |-> dc, data |-> IF de /\ ~dc THEN d2 ELSE <<>>,
       index_exists |-> TRUE, index |-> EmbedAll(d1)] :
        d1 \in Datasets \ {<<>>}, d2 \in Datasets, de \in BOOLEAN, dc \in BOOLEAN }

SearchInit ==
    /\ \/ /\ s_disk \in SearchDisks
          /\ s_app = initialize_faiss_index(s_disk)
       \/ /\ s_disk = NoDisk
          /\ s_app \in {[avail |-> TRUE, indexer |-> BuiltIndexer(d)] : d \in Datasets \ {<<>>}}
                        \cup {[avail |-> TRUE, indexer |-> NewIndexer]}
                        \cup {[avail |-> TRUE, indexer |-> LoadIndexer(SavedGeneration(d))] :
                                 d \in Datasets \ {<<>>}}
    /\ s_pc = "ready"
    /\ s_top_k = 0
    /\ s_indices = <<>>
    /\ s_out = [raised |-> FALSE, error |-> "", results |-> <<>>]
    /\ QInit(1, {NoDisk})
    /\ BIdle
    /\ GIdle

\* data_indexer.search_faiss(query, top_k) on the indexer
Search ==
    /\ s_pc = "ready"
    /\ s_app.avail
    /\ \E rank \in Ranks(Len(s_app.indexer.index)), k \in 1..MaxTopK, encode_ok \in BOOLEAN :
          /\ s_out' = search_faiss(s_app.indexer, rank, k, encode_ok)
          /\ s_top_k' = k
          /\ s_indices' = IF s_app.indexer.index_set /\ encode_ok
                          THEN IndexSearch(s_app.indexer.index, rank, k) ELSE <<>>
    /\ s_pc' = "searched"
    /\ UNCHANGED <<s_disk, s_app, qvars, bvars, gvars>>

SearchNext == Search

SearchSpec == SearchInit /\ [][SearchNext]_vars

(***************************************************************************)
(* BuildSpec: data_indexer.py, a DataIndexer made for an uploaded file and *)
(* the calls of process_and_index (or of index_faiss alone) on it, one     *)
(* action per step that can raise.                                         *)
(***************************************************************************)
\* Calls made on one DataIndexer, at most.
MaxRuns == 2

\* a cell read as null (NaN, NaT)
Null == "NaT"

\* Faulty variant of handle_nat_values: the cells are left as they are.
handle_nat_values_keeps(data) == data

\* handle_nat_values: null cells become the empty string
handle_nat_values(data) == [i \in 1..Len(data) |-> IF data[i] = Null THEN "" ELSE data[i]]

\* self.data.isnull().values.any()
HasNull(data) == \E i \in 1..Len(data) : data[i] = Null

\* the rows an uploaded file may hold
UploadRows == {<<>>, <<"r1">>, <<"r1", "r2">>, <<"r3", Null>>}

UploadFiles ==
    {[exists |-> FALSE, readable |-> FALSE, rows |-> <<>>]}
    \cup {[exists |-> TRUE, readable |-> FALSE, rows |-> <<>>]}
    \cup {[exists |-> TRUE, readable |-> TRUE, rows |-> r] : r \in UploadRows}

\* what the disk may hold when the upload arrives
BuildDisks == {NoDisk, SavedGeneration(<<"r1", "r2", "r3">>)}

BuildInit ==
    /\ b_disk \in BuildDisks
    /\ b_file \in UploadFiles
    /\ b_ind = NewIndexer
    /\ b_pc = "none"
    /\ b_direct = FALSE
    /\ b_cb \in BOOLEAN
    /\ b_emb = <<>>
    /\ b_i = 0
    /\ b_calls = <<>>
    /\ b_err = ""
    /\ b_runs = 0
    /\ b_prev = NewIndexer
    /\ b_disk0 = b_disk
    /\ QInit(1, {NoDisk})
    /\ SIdle
    /\ GIdle

\* a call ends by raising
BRaise(err) ==
    /\ b_pc' = "raised"
    /\ b_err' = err

\* DataIndexer(file_path): lines 17-40
DataIndexer_init ==
    /\ b_pc = "none"
    /\ IF ~b_file.exists
       THEN BRaise("file not found") /\ UNCHANGED b_ind
       ELSE IF b_disk.data_exists /\ b_disk.data_corrupt
       THEN BRaise("data file unreadable") /\ UNCHANGED b_ind
       ELSE /\ b_ind' = LoadIndexer(b_disk)
            /\ b_pc' = "constructed"
            /\ UNCHANGED b_err
    /\ UNCHANGED <<b_disk, b_file, b_direct, b_cb, b_emb, b_i, b_calls, b_runs,
                   b_prev, b_disk0, qvars, svars, gvars>>

\* a call may be made on the DataIndexer: it was constructed and no call is
\* in progress
CanCall == b_pc \in {"constructed", "done", "raised"} /\ b_err # "file not found"
              /\ b_err # "data file unreadable" /\ b_runs < MaxRuns

\* process_and_index step 1, read_excel: lines 48-56
read_excel ==
    /\ CanCall
    /\ b_runs' = b_runs + 1
    /\ b_prev' = b_ind
    /\ b_disk0' = b_disk
    /\ b_direct' = FALSE
    /\ b_calls' = <<>>
    /\ b_i' = 0
    /\ b_emb' = <<>>
    /\ IF b_file.readable
       THEN /\ b_ind' = [b_ind EXCEPT !.data_loaded = TRUE,
                                      !.data = handle_nat_values(b_file.rows)]
            /\ b_pc' = "read"
            /\ b_err' = ""
       ELSE BRaise("read failed") /\ UNCHANGED b_ind
    /\ UNCHANGED <<b_disk, b_file, b_cb, qvars, svars, gvars>>

\* process_and_index step 2, save_rows_to_folder: lines 112-133; convert_to_json
\* raises for a dataset without rows, and writing a row file may fail
save_rows_to_folder ==
    /\ b_pc = "read"
    /\ \/ /\ Len(b_ind.data) > 0
          /\ b_pc' = "rows_saved"
          /\ UNCHANGED b_err
       \/ /\ Len(b_ind.data) = 0
          /\ BRaise("no rows")
       \/ /\ Len(b_ind.data) > 0
          /\ BRaise("row file not written")
    /\ UNCHANGED <<b_disk, b_file, b_ind, b_direct, b_cb, b_emb, b_i, b_calls,
                   b_runs, b_prev, b_disk0, qvars, svars, gvars>>

\* process_and_index step 3: lines 220-221, data.json is written
save_data ==
    /\ b_pc = "rows_saved"
    /\ \/ /\ b_disk' = [b_disk EXCEPT !.data_exists = TRUE, !.data_corrupt = FALSE,
                                      !.data = b_ind.data]
          /\ b_pc' = "data_saved"
          /\ UNCHANGED b_err
       \/ /\ BRaise("data file not written")
          /\ UNCHANGED b_disk
    /\ UNCHANGED <<b_file, b_ind, b_direct, b_cb, b_emb, b_i, b_calls, b_runs,
                   b_prev, b_disk0, qvars, svars, gvars>>

\* index_faiss called on its own on the DataIndexer, outside process_and_index
index_faiss_call ==
    /\ CanCall
    /\ b_runs' = b_runs + 1
    /\ b_prev' = b_ind
    /\ b_disk0' = b_disk
    /\ b_direct' = TRUE
    /\ b_calls' = <<>>
    /\ b_i' = 0
    /\ b_emb' = <<>>
    /\ b_pc' = "data_saved"
    /\ b_err' = ""
    /\ UNCHANGED <<b_disk, b_file, b_ind, b_cb, qvars, svars, gvars>>

\* index_faiss up to the creation of the index: lines 139-163.  fail is what
\* the environment makes of the serialization and of the embedding call.
index_faiss_begin ==
    /\ b_pc = "data_saved"
    /\ \E fail \in {"none", "serialize", "encode"} :
         IF ~b_ind.data_loaded
         THEN BRaise("no data loaded") /\ UNCHANGED <<b_ind, b_emb>>
         ELSE LET cleaned == handle_nat_values(b_ind.data)
              IN  IF HasNull(cleaned)
                  THEN /\ BRaise("null values")
                       /\ b_ind' = [b_ind EXCEPT !.data = cleaned]
                       /\ UNCHANGED b_emb
                  ELSE IF fail = "serialize"
                  THEN /\ BRaise("serialization failed")
                       /\ b_ind' = [b_ind EXCEPT !.data = cleaned]
                       /\ UNCHANGED b_emb
                  ELSE IF fail = "encode"
                  THEN /\ BRaise("embedding failed")
                       /\ b_ind' = [b_ind EXCEPT !.data = cleaned]
                       /\ UNCHANGED b_emb
                  ELSE IF Len(cleaned) = 0
                  THEN /\ BRaise("no embeddings")      \* embeddings[0]
                       /\ b_ind' = [b_ind EXCEPT !.data = cleaned]
                       /\ UNCHANGED b_emb
                  ELSE /\ b_emb' = EmbedAll(cleaned)
                       /\ b_ind' = [b_ind EXCEPT !.data = cleaned,
                                                 !.index_set = TRUE, !.index = <<>>]
                       /\ b_pc' = "adding"
                       /\ UNCHANGED b_err
    /\ UNCHANGED <<b_disk, b_file, b_direct, b_cb, b_i, b_calls, b_runs,
                   b_prev, b_disk0, qvars, svars, gvars>>

\* the state after the insertion loop: process_and_index goes on to write the
\* index file, index_faiss alone returns
AfterLoop == IF b_direct THEN "done" ELSE "indexed"

\* Faulty variant of index_add: the callback is given the rounds completed before this one.
index_add_reports_before ==
    /\ b_pc = "adding"
    /\ b_i < Len(b_emb)
    /\ b_ind' = [b_ind EXCEPT !.index = Append(@, b_emb[b_i + 1])]
    /\ b_i' = b_i + 1
    /\ b_calls' = IF b_cb THEN Append(b_calls, <<b_i, Len(b_emb)>>) ELSE b_calls
    /\ b_pc' = IF b_i + 1 = Len(b_emb) THEN AfterLoop ELSE "adding"
    /\ UNCHANGED <<b_disk, b_file, b_direct, b_cb, b_emb, b_err, b_runs,
                   b_prev, b_disk0, qvars, svars, gvars>>

\* one round of the insertion loop, lines 166-169: the vector is added and the
\* callback, if any, is called and returns
index_add ==
    /\ b_pc = "adding"
    /\ b_i < Len(b_emb)
    /\ b_ind' = [b_ind EXCEPT !.index = Append(@, b_emb[b_i + 1])]
    /\ b_i' = b_i + 1
    /\ b_calls' = IF b_cb THEN Append(b_calls, <<b_i + 1, Len(b_emb)>>) ELSE b_calls
    /\ b_pc' = IF b_i + 1 = Len(b_emb) THEN AfterLoop ELSE "adding"
    /\ UNCHANGED <<b_disk, b_file, b_direct, b_cb, b_emb, b_err, b_runs,
                   b_prev, b_disk0, qvars, svars, gvars>>

\* self.index.add raises: the round's vector is not added
index_add_raises ==
    /\ b_pc = "adding"
    /\ b_i < Len(b_emb)
    /\ BRaise("add failed")
    /\ UNCHANGED <<b_disk, b_file, b_ind, b_direct, b_cb, b_emb, b_i, b_calls,
                   b_runs, b_prev, b_disk0, qvars, svars, gvars>>

\* the progress callback raises, after the round's vector was added
callback_raises ==
    /\ b_pc = "adding"
    /\ b_i < Len(b_emb)
    /\ b_cb
    /\ b_ind' = [b_ind EXCEPT !.index = Append(@, b_emb[b_i + 1])]
    /\ b_calls' = Append(b_calls, <<b_i + 1, Len(b_emb)>>)
    /\ BRaise("callback failed")
    /\ UNCHANGED <<b_disk, b_file, b_direct, b_cb, b_emb, b_i, b_runs,
                   b_prev, b_disk0, qvars, svars, gvars>>

\* Faulty variant of write_index: the upload's DataIndexer is also published as app.faiss_index.
write_index_publishes ==
    /\ b_pc = "indexed"
    /\ b_disk' = [b_disk EXCEPT !.index_exists = TRUE, !.index = b_ind.index]
    /\ b_pc' = "done"
    /\ app_faiss_index' = [avail |-> TRUE, indexer |-> b_ind]
    /\ UNCHANGED <<session_histories, pc, req, retrieval, retrieved_docs, context,
                   prompt, answer, pulled, events, cited, arrivals, emitted, commits>>
    /\ UNCHANGED <<b_file, b_ind, b_direct, b_cb, b_emb, b_i, b_calls, b_runs,
                   b_prev, b_disk0, b_err, svars, gvars>>

\* process_and_index step 5: lines 230-231, the index file is written
write_index ==
    /\ b_pc = "indexed"
    /\ \/ /\ b_disk' = [b_disk EXCEPT !.index_exists = TRUE, !.index = b_ind.index]
          /\ b_pc' = "done"
          /\ UNCHANGED b_err
       \/ /\ BRaise("index file not written")
          /\ UNCHANGED b_disk
    /\ UNCHANGED <<b_file, b_ind, b_direct, b_cb, b_emb, b_i, b_calls, b_runs,
                   b_prev, b_disk0, qvars, svars, gvars>>

\* the uploaded file is replaced between two calls
FileChanges ==
    /\ b_pc \in {"done", "raised"}
    /\ b_runs < MaxRuns
    /\ b_err # "file not found"
    /\ b_err # "data file unreadable"
    /\ \E f \in UploadFiles : f.exists /\ f # b_file /\ b_file' = f
    /\ UNCHANGED <<b_disk, b_ind, b_pc, b_direct, b_cb, b_emb, b_i, b_calls,
                   b_err, b_runs, b_prev, b_disk0, qvars, svars, gvars>>

BuildNext ==
    \/ DataIndexer_init
    \/ read_excel
    \/ save_rows_to_folder
    \/ save_data
    \/ index_faiss_call
    \/ index_faiss_begin
    \/ index_add
    \/ index_add_raises
    \/ callback_raises
    \/ write_index
    \/ FileChanges

BuildSpec == BuildInit /\ [][BuildNext]_vars

(***************************************************************************)
(* ServerSpec: main.py as one server process over its life.  The startup   *)
(* hook loads app.faiss_index from the disk; /upload builds a generation   *)
(* with a DataIndexer of its own (upload_and_index), which is never        *)
(* assigned to app.faiss_index; /stream serves a request; the process may  *)
(* be restarted at any moment, which runs the startup hook again.          *)
(*                                                                         *)
(* upload_file is an async handler that calls upload_and_index without     *)
(* awaiting: from the call to its return or raise the event loop runs      *)
(* nothing else.  Every step of a /stream request is run or dispatched by  *)
(* the event loop (the handler itself, each next() of the response         *)
(* generator through iterate_in_threadpool, each send).                    *)
(***************************************************************************)
\* the upload handler is inside upload_and_index
UploadRunning == b_pc \notin {"off", "done", "raised"}

\* the event loop is free to run another handler or to resume a response
LoopFree == ~UploadRunning

ServerInit ==
    /\ b_disk \in BuildDisks
    /\ QInit(1, {b_disk})
    /\ SIdle
    /\ GIdle
    /\ b_file = [exists |-> FALSE, readable |-> FALSE, rows |-> <<>>]
    /\ b_ind = NewIndexer
    /\ b_pc = "off"
    /\ b_direct = FALSE
    /\ b_cb = FALSE
    /\ b_emb = <<>>
    /\ b_i = 0
    /\ b_calls = <<>>
    /\ b_err = ""
    /\ b_runs = 0
    /\ b_prev = NewIndexer
    /\ b_disk0 = b_disk

\* upload_file, lines 53-59: the file is written to the upload directory and
\* upload_and_index is entered (no progress callback)
upload_file ==
    /\ LoopFree
    /\ b_runs < MaxRuns
    /\ \E f \in UploadFiles : f.exists /\ b_file' = f
    /\ b_pc' = "none"
    /\ b_ind' = NewIndexer
    /\ b_direct' = FALSE
    /\ b_cb' = FALSE
    /\ b_emb' = <<>>
    /\ b_i' = 0
    /\ b_calls' = <<>>
    /\ b_err' = ""
    /\ UNCHANGED <<b_disk, b_runs, b_prev, b_disk0, qvars, svars, gvars>>

\* upload_and_index, line 14: indexer.on_upload(), once on the new DataIndexer
on_upload == b_pc = "constructed" /\ read_excel

\* the process is restarted: what it held in memory is gone (the histories,
\* the requests, an upload in progress) and the startup hook loads the disk
Restart ==
    /\ app_faiss_index' = initialize_faiss_index(b_disk)
    /\ session_histories' = << >>
    /\ pc' = [q \in Queries |-> "idle"]
    /\ req' = [q \in Queries |-> [sid |-> "s1", query |-> <<>>, n |-> 0]]
    /\ retrieval' = [q \in Queries |-> "none"]
    /\ retrieved_docs' = [q \in Queries |-> <<>>]
    /\ context' = [q \in Queries |-> <<>>]
    /\ prompt' = [q \in Queries |-> <<>>]
    /\ answer' = [q \in Queries |-> <<>>]
    /\ pulled' = [q \in Queries |-> 0]
    /\ events' = [q \in Queries |-> <<>>]
    /\ cited' = [q \in Queries |-> 0]
    /\ arrivals' = 0
    /\ emitted' = 0
    /\ commits' = <<>>
    /\ b_pc' = "off"
    /\ b_ind' = NewIndexer
    /\ b_emb' = <<>>
    /\ b_i' = 0
    /\ b_calls' = <<>>
    /\ b_err' = ""
    /\ UNCHANGED <<b_disk, b_file, b_direct, b_cb, b_runs, b_prev, b_disk0, svars, gvars>>

ServerStream ==
    /\ LoopFree
    /\ \E q \in Queries, s \in SeqSessions, k \in StreamTopKs : stream(q, s, k, FALSE, 1)
    /\ UNCHANGED <<svars, bvars, gvars>>

ServerGeminiChunk == LoopFree /\ GeminiChunk
ServerGeminiError == LoopFree /\ GeminiError
ServerGeminiEnd == LoopFree /\ GeminiEnd
ServerAppendAnswer == LoopFree /\ AppendAnswer
ServerCitationNext == LoopFree /\ CitationNext
ServerClose == LoopFree /\ Close

\* a step of a /stream request
ServerQueryStep ==
    \/ ServerStream
    \/ ServerGeminiChunk
    \/ ServerGeminiError
    \/ ServerGeminiEnd
    \/ ServerAppendAnswer
    \/ ServerCitationNext
    \/ ServerClose

ServerNext ==
    \/ upload_file
    \/ DataIndexer_init
    \/ on_upload
    \/ save_rows_to_folder
    \/ save_data
    \/ index_faiss_begin
    \/ index_add
    \/ index_add_raises
    \/ write_index
    \/ Restart
    \/ ServerStream
    \/ ServerGeminiChunk
    \/ ServerGeminiError
    \/ ServerGeminiEnd
    \/ ServerAppendAnswer
    \/ ServerCitationNext
    \/ ServerClose

ServerSpec == ServerInit /\ [][ServerNext]_vars

(***************************************************************************)
(* GraniteSpec: query_granite.py, one GraniteChat and MaxChats calls of    *)
(* chat on it.  chat is a generator: the call runs nothing, the first      *)
(* next() runs the body up to its first yield, and the caller may drop the *)
(* generator before it starts or while it is suspended at a yield.         *)
(***************************************************************************)
\* Calls of chat made on the GraniteChat, at most.
MaxChats == 3
\* Content lines of one response, at most.
MaxLines == 2

\* the content a line of the response may carry
GraniteContents == {<<"a">>, <<"b">>}

\* the user_input of the n-th call
UserInput(n) == <<"u" \o ToString(n)>>

\* {"role": role, "content": content}
Message(role, content) == [role |-> role, content |-> content]

GraniteInit ==
    /\ g_messages = <<>>
    /\ g_pc = "none"
    /\ g_input = <<>>
    /\ g_output = <<>>
    /\ g_lines = 0
    /\ g_calls = 0
    /\ QInit(1, {NoDisk})
    /\ SIdle
    /\ BIdle

\* no generator of an earlier call is still alive
GraniteCallOver == g_pc \in {"none", "returned", "abandoned"}

\* chat(user_input) is called: a generator is made, nothing of the body runs
chat_call ==
    /\ GraniteCallOver
    /\ g_calls < MaxChats
    /\ g_calls' = g_calls + 1
    /\ g_input' = UserInput(g_calls + 1)
    /\ g_output' = <<>>
    /\ g_lines' = 0
    /\ g_pc' = "created"
    /\ UNCHANGED <<g_messages, qvars, svars, bvars>>

\* the first next(), lines 21-36: the user message is appended and the request
\* posted; if the request fails the generator returns
chat_begin ==
    /\ g_pc = "created"
    /\ g_messages' = Append(g_messages, Message("user", g_input))
    /\ \E ok \in BOOLEAN : g_pc' = IF ok THEN "reading" ELSE "returned"
    /\ UNCHANGED <<g_input, g_output, g_lines, g_calls, qvars, svars, bvars>>

\* lines 37-44: a line with done false: its content is added to output and yielded
chat_content ==
    /\ g_pc \in {"reading", "yielded"}
    /\ g_lines < MaxLines
    /\ \E c \in GraniteContents : g_output' = g_output \o c
    /\ g_lines' = g_lines + 1
    /\ g_pc' = "yielded"
    /\ UNCHANGED <<g_messages, g_input, g_calls, qvars, svars, bvars>>

\* lines 46-49: the line with done true: the assistant message is appended
chat_done ==
    /\ g_pc \in {"reading", "yielded"}
    /\ g_messages' = Append(g_messages, Message("assistant", g_output))
    /\ g_pc' = "returned"
    /\ UNCHANGED <<g_input, g_output, g_lines, g_calls, qvars, svars, bvars>>

\* the response ends without a line with done true: the for loop is left
chat_stream_ends ==
    /\ g_pc \in {"reading", "yielded"}
    /\ g_pc' = "returned"
    /\ UNCHANGED <<g_messages, g_input, g_output, g_lines, g_calls, qvars, svars, bvars>>

\* the caller drops the generator, not yet started or suspended at the yield
chat_abandoned ==
    /\ g_pc \in {"created", "yielded"}
    /\ g_pc' = "abandoned"
    /\ UNCHANGED <<g_messages, g_input, g_output, g_lines, g_calls, qvars, svars, bvars>>

GraniteNext ==
    \/ chat_call
    \/ chat_begin
    \/ chat_content
    \/ chat_done
    \/ chat_stream_ends
    \/ chat_abandoned

GraniteSpec == GraniteInit /\ [][GraniteNext]_vars

(***************************************************************************)
(* Properties of the query pipeline and the session histories.             *)
(***************************************************************************)
\* the last n elements of a sequence
LastN(seq, n) == SubSeq(seq, IF Len(seq) > n THEN Len(seq) - n + 1 ELSE 1, Len(seq))

\* the entries request number n has appended, in order
EntriesBy(n) ==
    LET mine == SelectSeq(commits, LAMBDA c : c.n = n)
    IN  [i \in 1..Len(mine) |-> mine[i].entry]

\* the entries appended by the requests made with session id s, in order
EntriesOf(s) ==
    LET own == SelectSeq(commits, LAMBDA c : c.sid = s)
    IN  [i \in 1..Len(own) |-> own[i].entry]

\* the text of the response events delivered so far, concatenated
RECURSIVE DeliveredText(_)
DeliveredText(evs) ==
    IF Len(evs) = 0 THEN <<>>
    ELSE (IF evs[1].type = "response" THEN evs[1].data ELSE <<>>) \o DeliveredText(Tail(evs))

\* the contents of the histories that exist before and after a step are the same
HistoriesUnchanged ==
    \A s \in DOMAIN session_histories : session_histories'[s] = session_histories[s]

\* C1: when the backend raises after k >= 0 fragments were yielded, the request
\* ends with the error raised to the caller, the failing step changes no session
\* history, and no entry of the failed request is ever in a history.
C1_FailedStreamLeavesHistory ==
    /\ [][\A q \in Queries :
            (pc[q] # "failed" /\ pc'[q] = "failed")
                => /\ pc[q] \in {"created", "streaming"}
                   /\ HistoriesUnchanged
                   /\ DOMAIN session_histories' = DOMAIN session_histories]_vars
    /\ [](\A q \in Queries :
            pc[q] = "failed"
                => /\ EntriesBy(req[q].n) = <<>>
                   /\ \A i \in 1..Len(session_histories[req[q].sid]) :
                        session_histories[req[q].sid][i] # QEntry(req[q].query))

\* C1 witness: a request has failed after a fragment was delivered, on a session
\* that already remembers an earlier turn.
C1_Witness ==
    \E q \in Queries :
        /\ pc[q] = "failed"
        /\ pulled[q] >= 1
        /\ Len(events[q]) >= 1
        /\ Len(session_histories[req[q].sid]) >= 2

\* C2 (amended): a session history is changed only by a request whose backend
\* stream has ended without error after every fragment was forwarded; a request
\* still retrieving, building its prompt or streaming has appended nothing; a
\* completed request has appended exactly its question and its accumulated
\* answer with the leading and trailing whitespace stripped.
C2_CommitOnlyAfterStreamEnds ==
    /\ [][~HistoriesUnchanged =>
            \E q \in Queries :
                /\ \/ pc[q] \in {"created", "streaming"} /\ pc'[q] = "appendedQ"
                   \/ pc[q] = "appendedQ" /\ pc'[q] \in {"citing", "done"}
                /\ emitted' = emitted
                /\ DeliveredText(events[q]) = answer[q]
                /\ Len(events[q]) = pulled[q]]_vars
    /\ [](\A q \in Queries :
            /\ pc[q] \in {"created", "streaming", "failed", "aborted"}
                   => EntriesBy(req[q].n) = <<>>
            /\ pc[q] = "appendedQ" => EntriesBy(req[q].n) = << <<"Q", ":", " ">> \o req[q].query >>
            /\ pc[q] \in {"citing", "done"}
                   => EntriesBy(req[q].n) =
                        << <<"Q", ":", " ">> \o req[q].query,
                           <<"A", ":", " ">> \o Strip(answer[q]) >>)

\* C2 as stated: a completed request has committed its question and the full
\* accumulated answer.
C2_Original_FullAnswerCommitted ==
    \A q \in Queries :
        pc[q] \in {"citing", "done"}
            => EntriesBy(req[q].n) =
                 << <<"Q", ":", " ">> \o req[q].query, <<"A", ":", " ">> \o answer[q] >>

\* C2 witness: a request has completed after delivering a fragment whose text
\* starts with whitespace, and its turn is in the history.
C2_Witness ==
    \E q \in Queries :
        /\ pc[q] = "done"
        /\ pulled[q] >= 1
        /\ Strip(answer[q]) # answer[q]
        /\ Len(session_histories[req[q].sid]) >= 2

\* C3: once the caller has closed the response stream before the answer was
\* exhausted, the request stays closed, takes no further fragment from the
\* backend and never has an entry in a history; the closing step itself takes
\* no fragment and changes no history.
C3_ClosedStreamNeverCommits ==
    /\ [][\A q \in Queries :
            /\ (pc[q] # "closed" /\ pc'[q] = "closed")
                   => /\ pulled'[q] = pulled[q]
                      /\ emitted' = emitted
                      /\ HistoriesUnchanged
            /\ pc[q] = "closed"
                   => /\ pc'[q] = "closed"
                      /\ pulled'[q] = pulled[q]
                      /\ answer'[q] = answer[q]]_vars
    /\ [](\A q \in Queries :
            (pc[q] = "closed" /\ cited[q] = 0) => EntriesBy(req[q].n) = <<>>)

\* C3 witness: a request was closed after its last delivered fragment, before
\* the end of the stream was seen, while another request has committed.
C3_Witness ==
    \E q \in Queries :
        /\ pc[q] = "closed"
        /\ cited[q] = 0
        /\ pulled[q] >= 1
        /\ Len(commits) >= 2

\* C5 as stated: the turn of every completed request is in the history of its
\* session exactly once, its question entry immediately followed by its own
\* answer entry (no history is full here, so nothing was evicted).
C5_Original_TurnsAtomic ==
    \A q \in Queries :
        pc[q] \in {"citing", "done"}
            => LET h == session_histories[req[q].sid]
                   at == {i \in 1..Len(h) : h[i] = <<"Q", ":", " ">> \o req[q].query}
               IN  /\ Cardinality(at) = 1
                   /\ \A i \in at :
                        /\ i < Len(h)
                        /\ h[i + 1] = <<"A", ":", " ">> \o Strip(answer[q])

\* C6: every session's history is exactly the (last HistoryMaxLen) entries
\* appended by the requests made with that session id, in the order they were
\* appended, and the prompt of a request is built from a history its own
\* session has held.
C6_SessionsIsolated ==
    /\ \A s \in DOMAIN session_histories :
            session_histories[s] = LastN(EntriesOf(s), HistoryMaxLen)
    /\ \A c \in {commits[i] : i \in 1..Len(commits)} : c.sid \in DOMAIN session_histories
    /\ \A q \in Queries :
            pc[q] \in {"streaming", "appendedQ", "citing", "done"}
                => \E j \in 0..Len(EntriesOf(req[q].sid)) :
                       prompt[q] = BuildPrompt(
                           LastN(SubSeq(EntriesOf(req[q].sid), 1, j), HistoryMaxLen),
                           context[q], req[q].query)

\* C6 witness: two requests on distinct sessions have committed with their
\* appends interleaved, and both histories hold a turn.
C6_Witness ==
    /\ Len(commits) = 4
    /\ commits[1].sid # commits[2].sid
    /\ \A s \in Sessions : s \in DOMAIN session_histories /\ Len(session_histories[s]) = 2

SeqSettled == pc[1] # "appendedQ"

\* turns committed so far in SeqSpec
TurnsCommitted == Len(commits) \div 2

\* whole turns that fit in a history
TurnsKept == HistoryMaxLen \div 2

\* C4 (amended): after k requests completed one after another on one session,
\* the history holds exactly the min(k, 5) most recent turns, oldest first, each
\* a question entry followed by the answer entry of the same request: the ten
\* entries of the deque are five turns, and the oldest turn is gone once a
\* sixth is committed.
C4_HistoryKeepsLastFiveTurns ==
    SeqSettled =>
        /\ Len(commits) = 2 * TurnsCommitted
        /\ \A t \in 1..TurnsCommitted :
              /\ commits[2 * t - 1].n = commits[2 * t].n
              /\ commits[2 * t - 1].entry = <<"Q", ":", " ">> \o QueryText(commits[2 * t].n)
              /\ commits[2 * t].entry[1] = "A"
              /\ t > 1 => commits[2 * t - 2].n < commits[2 * t].n
        /\ \A s \in DOMAIN session_histories :
              /\ Len(session_histories[s]) = 2 * Min(TurnsCommitted, TurnsKept)
              /\ session_histories[s] =
                    [i \in 1..(2 * Min(TurnsCommitted, TurnsKept)) |->
                        commits[Len(commits) - 2 * Min(TurnsCommitted, TurnsKept) + i].entry]

\* C4 as stated: the history holds the min(k, 10) most recent turns.
C4_Original_HistoryKeepsLastTenTurns ==
    SeqSettled =>
        \A s \in DOMAIN session_histories :
            Len(session_histories[s]) = 2 * Min(TurnsCommitted, HistoryMaxLen)

\* C4 witness: six turns were committed, and the history starts with the
\* question of the second of them.
C4_Witness ==
    /\ SeqSettled
    /\ TurnsCommitted = 6
    /\ "s1" \in DOMAIN session_histories
    /\ session_histories["s1"][1] = commits[3].entry
    /\ commits[3].n > commits[1].n

(***************************************************************************)
(* Properties of search_faiss (SearchSpec).                                *)
(***************************************************************************)
\* the search ran on an index that index_faiss built from the indexer's dataset
SearchedBuilt ==
    /\ s_pc = "searched"
    /\ s_app.indexer.index_set
    /\ s_app.indexer.data_loaded
    /\ Len(s_app.indexer.data) > 0
    /\ s_app.indexer.index = EmbedAll(s_app.indexer.data)
    /\ Len(s_indices) = s_top_k

\* the search ran on a loaded index whose vector count differs from the length
\* of the (non-empty) dataset loaded beside it
SearchedMismatched ==
    /\ s_pc = "searched"
    /\ s_disk.index_exists
    /\ s_app.indexer.data_loaded
    /\ Len(s_app.indexer.data) > 0
    /\ Len(s_app.indexer.index) # Len(s_app.indexer.data)
    /\ Len(s_indices) = s_top_k

\* C7 as stated: on a built index of count vectors with its dataset, a search
\* for top_k >= 1 returns exactly min(top_k, count) records, the record of each
\* returned position in rank order, none repeated.
C7_Original_NoPadding ==
    SearchedBuilt =>
        LET data == s_app.indexer.data
            res == s_out.results
        IN  /\ ~s_out.raised
            /\ Len(res) = Min(s_top_k, Len(s_app.indexer.index))
            /\ \A i \in 1..Len(res) : s_indices[i] >= 0 /\ res[i] = data[s_indices[i] + 1]
            /\ \A i, j \in 1..Len(res) : i # j => res[i] # res[j]

\* the returned positions that have a row in the dataset, by the test of the code
RECURSIVE BelowLen(_, _)
BelowLen(indices, n) ==
    IF Len(indices) = 0 THEN <<>>
    ELSE (IF indices[1] < n THEN <<indices[1]>> ELSE <<>>) \o BelowLen(Tail(indices), n)

C10_Original_NoPartialIndex ==
    (b_pc = "raised" /\ b_runs >= 1)
        => /\ b_ind.index_set => (b_prev.index_set /\ b_ind.index = b_prev.index)
           /\ b_disk.index_exists = b_disk0.index_exists
           /\ b_disk.index = b_disk0.index

\* C10: the failing state: the progress callback raised in the first round of
\* the insertion loop over a two-row dataset, and the index holds one vector.
C10_PartialIndexReached ==
    /\ b_pc = "raised"
    /\ b_err = "callback failed"
    /\ Len(b_emb) = 2
    /\ b_ind.index_set
    /\ Len(b_ind.index) = 1

(***************************************************************************)
(* Properties of the server over uploads and restarts (ServerSpec).        *)
(***************************************************************************)
\* the dataset and the index of a DataIndexer are of one generation: as many
\* vectors as records, the vector at each position computed from the record there
OneGeneration(ind) == ind.data_loaded /\ ind.index = EmbedAll(ind.data)

\* C11 as stated: a DataIndexer whose index was set by a completed index_faiss
\* or by the startup load has as many records as vectors, and the vector at
\* position i was computed from the record at position i.
C11_Original_IndexMatchesDataset ==
    /\ b_pc \in {"indexed", "done"} => OneGeneration(b_ind)
    /\ app_faiss_index.avail => OneGeneration(app_faiss_index.indexer)

\* C11: the failing state: after an upload that wrote data.json and then
\* raised, a restart has loaded the index file of the generation before beside
\* the new dataset.
C11_MismatchLoaded ==
    /\ app_faiss_index.avail
    /\ app_faiss_index.indexer.data_loaded
    /\ app_faiss_index.indexer.index = EmbedAll(<<"r1", "r2", "r3">>)
    /\ Len(app_faiss_index.indexer.data) < 3
    /\ b_pc = "off"

\* C12 as stated: every search of a /stream request maps the positions of an
\* index to the records of the dataset that index was built from.
C12_Original_SearchSingleGeneration ==
    \A q \in Queries :
        retrieval[q] = "ok"
            => /\ OneGeneration(app_faiss_index.indexer)
               /\ \A i \in 1..Len(retrieved_docs[q]) :
                     \E j \in 1..Len(app_faiss_index.indexer.index) :
                        /\ retrieved_docs[q][i] = app_faiss_index.indexer.data[j]
                        /\ app_faiss_index.indexer.index[j] = Embed(JsonDumps(retrieved_docs[q][i]))

\* C12: the failing state: a request was answered from the vectors of the old
\* generation and the rows of the new one.
C12_TornSearch ==
    \E q \in Queries :
        /\ retrieval[q] = "ok"
        /\ Len(retrieved_docs[q]) = 1
        /\ app_faiss_index.indexer.index = EmbedAll(<<"r1", "r2", "r3">>)
        /\ app_faiss_index.indexer.data = <<"r1", "r2">>
        /\ b_disk.data = <<"r1", "r2">>
        /\ b_disk.index = EmbedAll(<<"r1", "r2", "r3">>)

\* C20 as stated: while an upload is building its index, a /stream request
\* that has not ended can take a step.
C20_Original_QueriesNotSerialized ==
    (UploadRunning /\ \E q \in Queries : pc[q] \notin Terminal) => ENABLED ServerQueryStep

\* C20: the failing state: a request that was streaming its answer stands
\* still while the upload handler is in its insertion loop.
C20_QueryStalled ==
    /\ b_pc = "adding"
    /\ \E q \in Queries : pc[q] = "streaming"
    /\ ~ENABLED ServerQueryStep

(***************************************************************************)
(* Properties of the event sequence and of the prompt (CiteSpec).          *)
(***************************************************************************)
\* C13: the events of a request are its response events followed by its
\* citation events; a citation is emitted only when the context was not empty
\* and the answer stream has ended without error (the turn is committed); the
\* citations are the retrieved records in the order they have in the prompt
\* context, and a request that has run to its end has emitted one per record.
C13_CitationsTrailInRankOrder ==
    \A q \in Queries :
        /\ Len(events[q]) = pulled[q] + cited[q]
        /\ \A i \in 1..pulled[q] : events[q][i].type = "response"
        /\ \A i \in 1..cited[q] :
              events[q][pulled[q] + i] = [type |-> "citation", data |-> <<retrieved_docs[q][i]>>]
        /\ cited[q] <= Len(retrieved_docs[q])
        /\ (Len(context[q]) > 0) = (Len(retrieved_docs[q]) > 0)
        /\ context[q] = Join(<<" ">>, [i \in 1..Len(retrieved_docs[q]) |->
                                          <<"{", retrieved_docs[q][i], "}">>])
        /\ cited[q] > 0
              => /\ pc[q] \in {"citing", "done", "closed"}
                 /\ Len(context[q]) > 0
                 /\ Len(EntriesBy(req[q].n)) = 2
        /\ pc[q] = "done" => cited[q] = Len(retrieved_docs[q])
        /\ pc[q] \in {"created", "streaming", "appendedQ", "failed", "aborted"} => cited[q] = 0

\* C13 witness: a request that retrieved two different records has run to its
\* end, after a response event and both citations.
C13_Witness ==
    \E q \in Queries :
        /\ pc[q] = "done"
        /\ pulled[q] >= 1
        /\ cited[q] >= 2
        /\ retrieved_docs[q][1] # retrieved_docs[q][2]

\* the prompt the code builds: the history section, the context section, the
\* question, then the fixed instructions
PromptSections(history, docs, query) ==
    <<"This is the history:\n">>
    \o (IF Len(history) > 0 THEN Join(<<"\n">>, history) ELSE <<"No history available.">>)
    \o <<"\n\nThis is the context:\n">>
    \o (IF Len(docs) > 0
        THEN Join(<<" ">>, [i \in 1..Len(docs) |-> <<"{", docs[i], "}">>])
        ELSE <<"No context available.">>)
    \o <<"\n\nThis is the query:\n">> \o query
    \o <<"\n\n", Instructions>>

\* C19 (amended): the prompt is built once, when the response generator starts,
\* as a function of the session history at that moment, the retrieved records
\* and the question: the history entries oldest first (or a placeholder), the
\* records as JSON in retrieval rank order joined by spaces, carrying no
\* citation index (or a placeholder), the question, and the fixed instructions.
C19_PromptSectionsUntagged ==
    [][\A q \in Queries :
          /\ (pc[q] = "created" /\ pc'[q] \in {"streaming", "appendedQ", "failed"})
                => prompt'[q] = PromptSections(LastN(EntriesOf(req[q].sid), HistoryMaxLen),
                                               retrieved_docs[q], req[q].query)
          /\ (pc[q] \in {"streaming", "appendedQ", "citing"} /\ req'[q] = req[q])
                => prompt'[q] = prompt[q]]_vars

\* C19 as stated: in the prompt of a request that retrieved records, the r-th
\* record carries its citation index r.
C19_Original_RecordsTagged ==
    \A q \in Queries :
        (pc[q] \in {"streaming", "appendedQ", "citing", "done"} /\ Len(retrieved_docs[q]) > 0)
            => \A r \in 1..Len(retrieved_docs[q]) :
                  \E i \in 1..Len(prompt[q]) : prompt[q][i] = "[" \o ToString(r) \o "]"

\* C19 witness: the second request of a session is streaming with a prompt
\* that holds the first turn and two retrieved records.
C19_Witness ==
    \E q \in Queries :
        /\ pc[q] = "streaming"
        /\ req[q].n = 2
        /\ Len(retrieved_docs[q]) >= 2
        /\ Len(session_histories[req[q].sid]) = 2
        /\ prompt[q] = PromptSections(session_histories[req[q].sid], retrieved_docs[q], req[q].query)

(***************************************************************************)
(* Lazy creation of the session entry (SeqSpec).                           *)
(***************************************************************************)
\* C14: a session entry appears only when a request names an unknown session
\* id, and then with an empty history; a request that names a known session
\* leaves every history as it is; the prompt of a request is built from all
\* the entries its session has committed so far (the last HistoryMaxLen).
C14_SessionCreatedOnce ==
    [][/\ DOMAIN session_histories \subseteq DOMAIN session_histories'
       /\ \A s \in DOMAIN session_histories' \ DOMAIN session_histories :
             /\ session_histories'[s] = <<>>
             /\ arrivals' = arrivals + 1
       /\ arrivals' = arrivals + 1 => HistoriesUnchanged
       /\ \A q \in Queries :
             (pc[q] = "created" /\ pc'[q] \in {"streaming", "appendedQ", "failed"})
                => prompt'[q] = BuildPrompt(LastN(EntriesOf(req[q].sid), HistoryMaxLen),
                                            context[q], req[q].query)]_vars

\* C14 witness: the third request of a session is streaming and the history
\* still holds the two turns committed before it.
C14_Witness ==
    /\ pc[1] = "streaming"
    /\ req[1].n = 3
    /\ Len(commits) = 4
    /\ session_histories["s1"] = [i \in 1..4 |-> commits[i].entry]

(***************************************************************************)
(* Properties of search_faiss without an index (SearchSpec).               *)
(***************************************************************************)
\* C16: search_faiss on a DataIndexer whose index is not set raises the
\* index-not-built error whatever the embedding model would do, asks the index
\* for nothing, returns nothing, and leaves the DataIndexer as it was.
C16_SearchWithoutIndexRaises ==
    /\ []((s_pc = "searched" /\ ~s_app.indexer.index_set)
            => /\ s_out.raised
               /\ s_out.error = "index not built"
               /\ s_out.results = <<>>
               /\ s_indices = <<>>)
    /\ [][s_app' = s_app]_vars

\* C16 witness: a search was made on a DataIndexer that holds a dataset (loaded
\* at construction) but no index, and it raised.
C16_Witness ==
    /\ s_pc = "searched"
    /\ ~s_app.indexer.index_set
    /\ s_app.indexer.data_loaded
    /\ s_out.raised
    /\ s_out.error = "index not built"

(***************************************************************************)
(* Properties of ingestion and of the progress callback (BuildSpec).       *)
(***************************************************************************)
\* the embedding model was called in the call in progress or just ended
EncodeReached ==
    \/ b_err \in {"embedding failed", "no embeddings"}
    \/ b_pc \in {"adding", "indexed"}

\* C15 as stated: a missing file is refused at construction; an unreadable file
\* leaves no dataset and no index; with a dataset of zero rows no call
\* reaches the embedding model or completes with an index, and a call that
\* ended has raised.
C15_Original_EmptySourceRejected ==
    /\ (~b_file.exists /\ b_pc # "none") => (b_pc = "raised" /\ b_err = "file not found")
    /\ b_err = "read failed" => (b_pc = "raised" /\ b_ind = b_prev)
    /\ (b_ind.data_loaded /\ Len(b_ind.data) = 0 /\ b_runs >= 1)
          => /\ ~EncodeReached
             /\ b_pc # "done"
             /\ ~b_ind.index_set

\* C15: the failing state: index_faiss was called on a DataIndexer whose
\* dataset has no rows, the embedding model was called on an empty list, and
\* the call ended on the missing first embedding.
C15_EmptyDatasetEmbedded ==
    /\ b_ind.data_loaded
    /\ Len(b_ind.data) = 0
    /\ b_direct
    /\ b_pc = "raised"
    /\ b_err = "no embeddings"

\* C17: during an index_faiss with a progress callback, after i rounds of the
\* loop the callback has been called i times, the j-th call with (j, total),
\* and the index holds i vectors; each call is made when the index holds as
\* many vectors as the call reports; when the loop has ended, i = total.
C17_CallbackAfterEachInsertion ==
    /\ []((b_pc \in {"adding", "indexed", "done"})
            => /\ Len(b_calls) = (IF b_cb THEN b_i ELSE 0)
               /\ \A j \in 1..Len(b_calls) : b_calls[j] = <<j, Len(b_emb)>>
               /\ Len(b_ind.index) = b_i
               /\ b_pc \in {"indexed", "done"}
                     => (b_i = Len(b_emb) /\ Len(b_emb) = Len(b_ind.data)))
    /\ [][Len(b_calls') = Len(b_calls) + 1
            => /\ b_calls'[Len(b_calls')][1] = Len(b_ind'.index)
               /\ b_calls'[Len(b_calls')][1] = Len(b_calls) + 1
               /\ b_calls'[Len(b_calls')][2] = Len(b_emb)]_vars

\* C17 witness: an index_faiss with a callback has completed on two records.
C17_Witness ==
    /\ b_pc = "done"
    /\ b_cb
    /\ Len(b_ind.index) = 2
    /\ b_calls = << <<1, 2>>, <<2, 2>> >>

\* C18: the dataset of a DataIndexer holds no null cell once read_excel or
\* index_faiss has normalized it; the embeddings are those of that null-free
\* dataset; and a call that ended on the null check has computed no embedding
\* and left the index as it was.
C18_NoNullEmbedded ==
    /\ b_ind.data_loaded => ~HasNull(b_ind.data)
    /\ Len(b_emb) > 0 => b_emb = [i \in 1..Len(b_ind.data) |-> <<"vec", "{", b_ind.data[i], "}">>]
    /\ b_err = "null values"
          => /\ b_emb = <<>>
             /\ b_ind.index_set = b_prev.index_set
             /\ b_ind.index = b_prev.index

\* C18 witness: a file with a null cell was read and indexed: the embeddings
\* were computed from the row with the cell replaced by the empty string.
C18_Witness ==
    /\ HasNull(b_file.rows)
    /\ b_pc \in {"indexed", "done"}
    /\ Len(b_emb) = Len(b_file.rows)
    /\ \E i \in 1..Len(b_emb) : b_emb[i] = <<"vec", "{", "", "}">>

(***************************************************************************)
(* Whole turns in the history of a session used by one request at a time   *)
(* (SeqSpec).                                                              *)
(***************************************************************************)
\* C21: with the requests of a session run one after another, each ending by
\* completing, failing or being closed, the history, whenever no request is
\* between its two appends, has an even length of at most HistoryMaxLen, and
\* its entries are a question entry at every odd place and an answer entry at
\* every even place, also after entries were evicted.
C21_HistoryHoldsWholeTurns ==
    SeqSettled =>
        \A s \in DOMAIN session_histories :
            LET h == session_histories[s]
            IN  /\ Len(h) % 2 = 0
                /\ Len(h) <= HistoryMaxLen
                /\ \A i \in 1..Len(h) :
                      /\ Len(h[i]) >= 3
                      /\ h[i][1] = (IF i % 2 = 1 THEN "Q" ELSE "A")
                      /\ h[i][2] = ":"

\* C21 witness: six requests were made, two of them ended without completing
\* (failed or closed), four have committed their turn, and one that completed
\* with an empty answer has its question and its (empty) answer entry stored.
C21_Witness ==
    /\ SeqSettled
    /\ arrivals = 6
    /\ TurnsCommitted = 4
    /\ pc[1] = "done"
    /\ Len(session_histories["s1"]) = 8
    /\ \E i \in 1..4 : session_histories["s1"][2 * i] = <<"A", ":", " ">>

(***************************************************************************)
(* Durable state of process_and_index (BuildSpec).                         *)
(***************************************************************************)
\* C22 as stated: a process_and_index that raised has left data.json and
\* faiss_index.bin as they were before the call; one that returned has left
\* both describing the dataset it ingested.
C22_Original_AllOrNothing ==
    /\ (b_pc = "raised" /\ ~b_direct /\ b_runs >= 1) => b_disk = b_disk0
    /\ (b_pc = "done" /\ ~b_direct)
          => /\ b_disk.data_exists /\ b_disk.index_exists
             /\ b_disk.data = b_ind.data
             /\ b_disk.index = [i \in 1..Len(b_ind.data) |-> <<"vec", "{", b_ind.data[i], "}">>]

\* C22: the failing state: process_and_index raised in the index build after
\* data.json was rewritten: the disk pairs the new dataset file with the index
\* file of the generation before.
C22_TornDisk ==
    /\ b_pc = "raised"
    /\ ~b_direct
    /\ b_err = "embedding failed"
    /\ b_disk0 = SavedGeneration(<<"r1", "r2", "r3">>)
    /\ b_disk.data = <<"r1">>
    /\ b_disk.index = b_disk0.index

(***************************************************************************)
(* The generation served by a server process (ServerSpec).                 *)
(***************************************************************************)
\* a step that starts the process anew
IsRestart == b_pc' = "off" /\ arrivals' = 0 /\ \A q \in Queries : pc'[q] = "idle"

\* C23: app.faiss_index changes only when the process starts, to what the
\* startup hook makes of the disk; no step of an upload changes it, and every
\* request that retrieved has its records from the dataset held in memory.
C23_ServedGenerationFixed ==
    /\ [][/\ app_faiss_index' # app_faiss_index
             => (IsRestart /\ app_faiss_index' = initialize_faiss_index(b_disk))
          /\ (UploadRunning /\ ~IsRestart) => app_faiss_index' = app_faiss_index]_vars
    /\ [](\A q \in Queries :
            retrieval[q] = "ok"
               => /\ app_faiss_index.avail
                  /\ \A i \in 1..Len(retrieved_docs[q]) :
                        \E j \in 1..Len(app_faiss_index.indexer.data) :
                           retrieved_docs[q][i] = app_faiss_index.indexer.data[j])

\* C23 witness: an upload has completed and replaced both files, and a request
\* made after it has retrieved a record of the generation loaded at startup,
\* which the disk no longer holds.
C23_Witness ==
    /\ b_pc = "done"
    /\ b_disk.data = <<"r1">>
    /\ b_disk.index = EmbedAll(<<"r1">>)
    /\ app_faiss_index.indexer.data = <<"r1", "r2", "r3">>
    /\ \E q \in Queries :
          /\ retrieval[q] = "ok"
          /\ pc[q] = "done"
          /\ retrieved_docs[q] = <<"r3">>

(***************************************************************************)
(* The messages of a GraniteChat (GraniteSpec).                            *)
(***************************************************************************)
\* C24 as stated: the messages alternate user, assistant, user, assistant, ...
\* at every moment, and an assistant message holds the whole output of its call.
C24_Original_RolesAlternate ==
    /\ \A i \in 1..Len(g_messages) :
          g_messages[i].role = (IF i % 2 = 1 THEN "user" ELSE "assistant")
    /\ (g_pc = "returned" /\ Len(g_messages) > 0
           /\ g_messages[Len(g_messages)].role = "assistant")
          => g_messages[Len(g_messages)].content = g_output

\* C24: the failing state: the request of the first call failed, and the
\* second call has appended its user message right after the first one.
C24_UserLeftUnanswered ==
    /\ g_calls = 2
    /\ Len(g_messages) = 2
    /\ g_messages[1] = [role |-> "user", content |-> <<"u1">>]
    /\ g_messages[2] = [role |-> "user", content |-> <<"u2">>]

====
